---------------------------- MODULE Spec2Model ----------------------------
(***************************************************************************)
(* A model of export_notebooks.py: the length-prefixed chunk codec of      *)
(* MdRenderer (get_block, list_item, table_row, table_cell), the table     *)
(* renderer, the inline math lexer's rule order, and the image embedding   *)
(* renderer (EmbedImagesRenderer).                                         *)
(*                                                                         *)
(* A Python str is a sequence of one-character strings, a bytes object a   *)
(* sequence of numbers 0..255.  A value that may be None is None or        *)
(* Some(x).                                                                *)
(***************************************************************************)
EXTENDS Integers, Sequences, FiniteSets, TLC

VARIABLES
    \* the chunk codec: what the callbacks emitted and what list() decodes
    chunks,        \* the (tag, payload) pairs encoded so far, in order
    wire,          \* the concatenation of their encodings
    wrapped,       \* whether table_row has wrapped the buffer into one row chunk
    emitted,       \* how many chunks the callbacks returned
    phase,         \* "idle" | "encode" | "decode" | "done" | "raised"
    text,          \* list(): the text still to decode
    blocks,        \* list(): the (type, t) pairs get_block returned, in order
    r,             \* list(): the output accumulated
    ordered,       \* list(): its ordered argument
    err,           \* the exception that ended the call, or "none"
    \* the table renderer
    tcall,         \* the table handed to the renderer: aligns, header row, body rows
    tres,          \* what table() computed
    \* the inline lexer
    default_rules, \* InlineLexer.default_rules, a list shared by every lexer
    lexers,        \* how many MathInlineLexer objects were constructed
    ltext,         \* output(): the text still to lex
    tried,         \* output(): the rules tried at the current position, in order
    lout,          \* output(): the rendered pieces so far
    lstate,        \* "idle" | "scan" | "done"
    \* the image embedding renderer
    convert_svgs,  \* EmbedImagesRenderer.convert_svgs
    icall,         \* the last render call: its name and arguments
    ires,          \* what it returned or raised
    handles        \* the file handles and buffers opened and not closed so far

codecVars == <<chunks, wire, wrapped, emitted, phase, text, blocks, r, ordered, err>>
tableVars == <<tcall, tres>>
lexerVars == <<default_rules, lexers, ltext, tried, lout, lstate>>
imageVars == <<convert_svgs, icall, ires, handles>>
vars == <<codecVars, tableVars, lexerVars, imageVars>>

-----------------------------------------------------------------------------
(* Bounds of the model                                                     *)

MaxChunks == 2      \* chunks emitted into one buffer
MaxText == 4        \* characters of an arbitrary buffer given to list()
MaxCols == 2        \* columns of a table
MaxLexers == 2      \* MathInlineLexer objects constructed
MaxInput == 3       \* characters of a text given to the inline lexer
MaxImgs == 2        \* img elements of a raw HTML fragment

-----------------------------------------------------------------------------
(* Python's str, int and slicing                                           *)

Max(a, b) == IF a >= b THEN a ELSE b
Min(a, b) == IF a <= b THEN a ELSE b

Digit == <<"0", "1", "2", "3", "4", "5", "6", "7", "8", "9">>

IsDigit(c) == \E d \in 1..10 : Digit[d] = c

DigitVal(c) == (CHOOSE d \in 1..10 : Digit[d] = c) - 1

\* str(n) for n >= 0
RECURSIVE str(_)
str(n) == IF n < 10 THEN <<Digit[n + 1]>>
          ELSE str(n \div 10) \o <<Digit[(n % 10) + 1]>>

\* the value of a string of decimal digits
RECURSIVE DecValue(_)
DecValue(s) == IF s = <<>> THEN 0
               ELSE 10 * DecValue(SubSeq(s, 1, Len(s) - 1)) + DigitVal(s[Len(s)])

\* int(s): a ValueError unless s is a non-empty string of decimal digits (of the
\* characters the model uses, int() accepts no other)
int(s) == IF s # <<>> /\ \A i \in 1..Len(s) : IsDigit(s[i])
          THEN [ok |-> TRUE, val |-> DecValue(s)]
          ELSE [ok |-> FALSE, val |-> 0]

\* s[a:b] for 0 <= a, 0 <= b: Python clamps both ends to len(s)
Slice(s, a, b) == IF a >= Min(b, Len(s)) THEN <<>>
                  ELSE SubSeq(s, a + 1, Min(b, Len(s)))

\* s.find(c): the 0-based index of the first c, or -1
find(s, c) == IF \E i \in 1..Len(s) : s[i] = c
              THEN (CHOOSE i \in 1..Len(s) : s[i] = c /\ \A j \in 1..(i - 1) : s[j] # c) - 1
              ELSE -1

\* every string over alphabet A of at most n characters
StringsUpTo(A, n) == UNION {[1..k -> A] : k \in 0..n}

-----------------------------------------------------------------------------
(* The chunk codec: MdRenderer.get_block and the callbacks that encode     *)

\* tag + str(len(payload)) + ':' + payload
chunk(tag, payload) == <<tag>> \o str(Len(payload)) \o <<":">> \o payload

list_item(t) == chunk("l", t)

table_row(content) == chunk("r", content)

Returned(rest, type, t) == [exc |-> "none", rest |-> rest, type |-> type, t |-> t]
Raised(e) == [exc |-> e, rest |-> <<>>, type |-> "", t |-> <<>>]

\* get_block with the payload slice one character short
get_block_short(s) ==
    IF s = <<>> THEN Raised("IndexError")
    ELSE LET p == find(s, ":") IN
         IF p <= 0 THEN Returned(<<>>, "", <<>>)
         ELSE LET l == int(Slice(s, 1, p)) IN
              IF ~l.ok THEN Raised("ValueError")
              ELSE Returned(Slice(s, p + 1 + l.val, Len(s)), s[1],
                            Slice(s, p + 1, p + l.val))

\* get_block(text): (remainder, type, t); text[0] of '' is an IndexError, int()
\* of a non-number a ValueError
get_block(s) ==
    IF s = <<>> THEN Raised("IndexError")
    ELSE LET p == find(s, ":") IN
         IF p <= 0 THEN Returned(<<>>, "", <<>>)
         ELSE LET l == int(Slice(s, 1, p)) IN
              IF ~l.ok THEN Raised("ValueError")
              ELSE Returned(Slice(s, p + 1 + l.val, Len(s)), s[1],
                            Slice(s, p + 1, p + 1 + l.val))

Tags == {"l", "r", "c", "f"}

\* the payloads the callbacks are given: empty, digits, the delimiter itself,
\* text that looks like a chunk, and a cell flag (whose length has two digits)
Payloads == {<<>>, <<":">>, <<"1", ":">>, <<"c", "2", ":", "a", "b">>, <<"a", "l", "i", "g", "n", "=", "l", "e", "f", "t">>}

\* the variables of the other components
NotCodec == <<tableVars, lexerVars, imageVars>>

\* the chunk a callback returns for a payload: list_item an l chunk, table_row an
\* r chunk, table_cell its f and c chunks
callback(tag, payload) ==
    IF tag = "l" THEN list_item(payload)
    ELSE IF tag = "r" THEN table_row(payload)
    ELSE chunk(tag, payload)

\* a list_item, table_cell or table_row callback returns a chunk, which the caller
\* appends to the buffer it is building
Emit(tag, payload) ==
    /\ phase \in {"idle", "encode"}
    /\ emitted < MaxChunks
    /\ emitted' = emitted + 1
    /\ chunks' = Append(chunks, <<tag, payload>>)
    /\ wire' = wire \o callback(tag, payload)
    /\ phase' = "encode"
    /\ UNCHANGED <<wrapped, text, blocks, r, ordered, err, NotCodec>>

\* table_row wraps the cells' chunks into one row chunk
Wrap ==
    /\ phase = "encode"
    /\ ~wrapped
    /\ chunks' = << <<"r", wire>> >>
    /\ wire' = table_row(wire)
    /\ wrapped' = TRUE
    /\ UNCHANGED <<emitted, phase, text, blocks, r, ordered, err, NotCodec>>

\* list(text, ordered) is called with the buffer
ListCall(o) ==
    /\ phase = "encode"
    /\ phase' = "decode"
    /\ text' = wire
    /\ ordered' = o
    /\ blocks' = <<>>
    /\ r' = <<>>
    /\ UNCHANGED <<chunks, wire, wrapped, emitted, err, NotCodec>>

\* one iteration of list()'s loop
ListStep ==
    /\ phase = "decode"
    /\ text # <<>>
    /\ LET b == get_block(text) IN
       IF b.exc # "none"
       THEN /\ phase' = "raised"
            /\ err' = b.exc
            /\ UNCHANGED <<text, blocks, r>>
       ELSE /\ text' = b.rest
            /\ blocks' = Append(blocks, <<b.type, b.t>>)
            /\ r' = IF b.type = "l"
                    THEN r \o (IF ordered THEN <<"#", " ">> ELSE <<"*", " ">>) \o b.t \o <<"\n">>
                    ELSE r
            /\ UNCHANGED <<phase, err>>
    /\ UNCHANGED <<chunks, wire, wrapped, emitted, ordered, NotCodec>>

\* list() returns r
ListReturn ==
    /\ phase = "decode"
    /\ text = <<>>
    /\ phase' = "done"
    /\ UNCHANGED <<chunks, wire, wrapped, emitted, text, blocks, r, ordered, err, NotCodec>>

CodecIdle ==
    /\ chunks = <<>>
    /\ wire = <<>>
    /\ wrapped = FALSE
    /\ emitted = 0
    /\ phase = "idle"
    /\ text = <<>>
    /\ blocks = <<>>
    /\ r = <<>>
    /\ ordered = FALSE
    /\ err = "none"

-----------------------------------------------------------------------------
(* The table renderer: MdRenderer.table_cell, table_row and table          *)

\* colmax = [0] * 100 and align = [''] * 100
ColLimit == 100

\* s.replace('\n', ' ')
flatten(s) == [i \in 1..Len(s) |-> IF s[i] = "\n" THEN " " ELSE s[i]]

\* table_cell(content, header=h, align=a): one f chunk per flag, in the order the
\* caller gives them, then the c chunk.  A bool becomes 1 or 0, anything else its
\* str(): None becomes 'None'
table_cell(content, h, a) ==
    chunk("f", <<"h", "e", "a", "d", "e", "r", "=">> \o (IF h THEN <<"1">> ELSE <<"0">>))
    \o chunk("f", <<"a", "l", "i", "g", "n", "=">> \o a)
    \o chunk("c", flatten(content))

\* s.ljust(w, fill)
RECURSIVE ljust(_, _, _)
ljust(s, w, fill) == IF Len(s) >= w THEN s ELSE ljust(s \o <<fill>>, w, fill)

\* t2.split('='), unpacked into two names: a ValueError unless there is one '='
SplitFlag(s) ==
    LET q == find(s, "=") IN
    IF q = -1 \/ find(Slice(s, q + 1, Len(s)), "=") # -1
    THEN [ok |-> FALSE, fl |-> <<>>, v |-> <<>>]
    ELSE [ok |-> TRUE, fl |-> Slice(s, 0, q), v |-> Slice(s, q + 1, Len(s))]

\* the inner loop of table(): the chunks of one row.  flags is one dict per row,
\* and every cell of the row refers to that same dict; acc is [exc, flags, cols]
RECURSIVE ParseCells(_, _)
ParseCells(t, acc) ==
    IF t = <<>> \/ acc.exc # "none" THEN acc
    ELSE LET b == get_block(t) IN
         IF b.exc # "none" THEN [acc EXCEPT !.exc = b.exc]
         ELSE IF b.type = "f"
         THEN LET kv == SplitFlag(b.t) IN
              IF ~kv.ok THEN [acc EXCEPT !.exc = "ValueError"]
              ELSE ParseCells(b.rest,
                       [acc EXCEPT !.flags = [k \in (DOMAIN acc.flags) \cup {kv.fl} |->
                                                 IF k = kv.fl THEN kv.v ELSE acc.flags[k]]])
         ELSE IF b.type = "c"
         THEN ParseCells(b.rest, [acc EXCEPT !.cols = Append(acc.cols, b.t)])
         ELSE ParseCells(b.rest, acc)

NoFlags == [k \in {} |-> <<>>]

\* the outer loop of table(), for header and for body: the rows of a buffer; acc
\* is [exc, rows], a row is [flags, cols]
RECURSIVE ParseRows(_, _)
ParseRows(s, acc) ==
    IF s = <<>> \/ acc.exc # "none" THEN acc
    ELSE LET b == get_block(s) IN
         IF b.exc # "none" THEN [acc EXCEPT !.exc = b.exc]
         ELSE IF b.type = "r"
         THEN LET row == ParseCells(b.t, [exc |-> "none", flags |-> NoFlags, cols |-> <<>>]) IN
              IF row.exc # "none" THEN [acc EXCEPT !.exc = row.exc]
              ELSE ParseRows(b.rest,
                       [acc EXCEPT !.rows = Append(acc.rows, [flags |-> row.flags, cols |-> row.cols])])
         ELSE ParseRows(b.rest, acc)

\* the flags a cell object of a parsed row refers to: the row's dict, as it is
\* after the whole row was parsed
CellFlags(row, i) == row.flags

\* for col in row: colmax[i] = max(len(col.text), colmax[i]); align[i] =
\* col.flags['align'][0] when the cell has the flag; m is [exc, colmax, align]
RECURSIVE MeasureRow(_, _, _)
MeasureRow(row, i, m) ==
    IF i >= Len(row.cols) \/ m.exc # "none" THEN m
    ELSE IF i >= ColLimit THEN [m EXCEPT !.exc = "IndexError"]
    ELSE LET fl == CellFlags(row, i)
             m1 == [m EXCEPT !.colmax[i] = Max(Len(row.cols[i + 1]), m.colmax[i])] IN
         IF <<"a", "l", "i", "g", "n">> \in DOMAIN fl
         THEN IF fl[<<"a", "l", "i", "g", "n">>] = <<>> THEN [m EXCEPT !.exc = "IndexError"]
              ELSE MeasureRow(row, i + 1, [m1 EXCEPT !.align[i] = fl[<<"a", "l", "i", "g", "n">>][1]])
         ELSE MeasureRow(row, i + 1, m1)

\* for row in hrows + brows: colscount = max(len(row), colscount), then its cells
RECURSIVE Measure(_, _)
Measure(rows, m) ==
    IF rows = <<>> \/ m.exc # "none" THEN m
    ELSE Measure(Tail(rows),
             MeasureRow(Head(rows), 0,
                 [m EXCEPT !.colscount = Max(Len(Head(rows).cols), m.colscount)]))

\* one row of text: the cells, each padded to its column's width, ' | ' between
RECURSIVE RowLine(_, _, _)
RowLine(cols, i, colmax) ==
    IF i >= Len(cols) THEN <<"\n">>
    ELSE (IF i > 0 THEN <<" ", "|", " ">> ELSE <<>>)
         \o ljust(cols[i + 1], colmax[i], " ")
         \o RowLine(cols, i + 1, colmax)

RECURSIVE RowLines(_, _)
RowLines(rows, colmax) ==
    IF rows = <<>> THEN <<>>
    ELSE RowLine(Head(rows).cols, 0, colmax) \o RowLines(Tail(rows), colmax)

\* the separator cell with every marker filled to the column's width less one
SepCellNarrow(a, w) ==
    IF a = "c" THEN <<":">> \o ljust(<<"-">>, w - 3, "-") \o <<":">>
    ELSE IF a = "l" THEN <<":">> \o ljust(<<"-">>, w - 2, "-")
    ELSE IF a = "r" THEN ljust(<<"-">>, w - 2, "-") \o <<":">>
    ELSE ljust(<<"-">>, w - 1, "-")

\* the separator cell of a column with alignment letter a and width w
SepCell(a, w) ==
    IF a = "c" THEN <<":">> \o ljust(<<"-">>, w - 2, "-") \o <<":">>
    ELSE IF a = "l" THEN <<":">> \o ljust(<<"-">>, w - 1, "-")
    ELSE IF a = "r" THEN ljust(<<"-">>, w - 1, "-") \o <<":">>
    ELSE ljust(<<"-">>, w, "-")

RECURSIVE SepLine(_, _, _, _)
SepLine(i, colscount, align, colmax) ==
    IF i >= colscount THEN <<"\n">>
    ELSE (IF i > 0 THEN <<" ", "|", " ">> ELSE <<>>)
         \o SepCell(align[i], colmax[i])
         \o SepLine(i + 1, colscount, align, colmax)

\* table() raised e; "pending" before the call
TableRaised(e) == [exc |-> e, r |-> <<>>, nh |-> 0, colscount |-> 0,
                   colmax |-> <<>>, align |-> <<>>]

\* table(header, body): r, and beside it the locals r was built from (the first
\* colscount entries of colmax and align, and the number of header rows)
table(header, body) ==
    LET h == ParseRows(header, [exc |-> "none", rows |-> <<>>])
        b == ParseRows(body, [exc |-> "none", rows |-> <<>>]) IN
    IF h.exc # "none" THEN TableRaised(h.exc)
    ELSE IF b.exc # "none" THEN TableRaised(b.exc)
    ELSE LET m == Measure(h.rows \o b.rows,
                      [exc |-> "none", colscount |-> 0,
                       colmax |-> [i \in 0..(ColLimit - 1) |-> 0],
                       align |-> [i \in 0..(ColLimit - 1) |-> ""]]) IN
         IF m.exc # "none" THEN TableRaised(m.exc)
         ELSE [exc |-> "none",
               r |-> RowLines(h.rows, m.colmax)
                     \o SepLine(0, m.colscount, m.align, m.colmax)
                     \o RowLines(b.rows, m.colmax),
               nh |-> Len(h.rows),
               colscount |-> m.colscount,
               colmax |-> [i \in 1..m.colscount |-> m.colmax[i - 1]],
               align |-> [i \in 1..m.colscount |-> m.align[i - 1]]]

\* the values of a column's alignment as the parser passes them: None, or a name
Aligns == {<<"N", "o", "n", "e">>, <<"l", "e", "f", "t">>, <<"r", "i", "g", "h", "t">>, <<"c", "e", "n", "t", "e", "r">>}

\* cell texts: empty, one character, and four characters of which one is a line
\* break
Texts == {<<>>, <<"A">>, <<"L", "o", "\n", "g">>}

\* the texts of a body row: narrower and wider than the header's
BodyTexts == {<<>>, <<"L", "o", "\n", "g">>}

\* a table has one header row; the model gives it no or one body row, which may be
\* shorter than the header
BodyRows(c) == {<<>>} \cup {<<row>> : row \in UNION {[1..k -> BodyTexts] : k \in 1..c}}

\* a table as the parser hands it over: the columns' alignments, the header's
\* cells, and the body's rows (none longer than the header)
TableInputs ==
    UNION {[aligns : [1..c -> Aligns], header : [1..c -> Texts], body : BodyRows(c)]
           : c \in 1..MaxCols}

\* the cells of one row go through table_cell, their concatenation through
\* table_row
RECURSIVE CellsWire(_, _, _, _)
CellsWire(cells, aligns, h, j) ==
    IF j > Len(cells) THEN <<>>
    ELSE table_cell(cells[j], h, aligns[j]) \o CellsWire(cells, aligns, h, j + 1)

RECURSIVE BodyWire(_, _)
BodyWire(rows, aligns) ==
    IF rows = <<>> THEN <<>>
    ELSE table_row(CellsWire(Head(rows), aligns, FALSE, 1)) \o BodyWire(Tail(rows), aligns)

NotTable == <<codecVars, lexerVars, imageVars>>

\* the table handed over is rendered: its cells and rows are encoded by
\* table_cell and table_row, and table() is called with the two buffers
RenderTable ==
    /\ tres = TableRaised("pending")
    /\ tres' = table(table_row(CellsWire(tcall.header, tcall.aligns, TRUE, 1)),
                     BodyWire(tcall.body, tcall.aligns))
    /\ UNCHANGED <<tcall, NotTable>>

NoTable == [aligns |-> <<>>, header |-> <<>>, body |-> <<>>]

TableIdle == tcall = NoTable /\ tres = TableRaised("pending")

-----------------------------------------------------------------------------
(* The inline lexer: MathInlineMixin.enable_math and the rule loop         *)

\* InlineLexer.default_rules as MathInlineLexer inherits it: a list of the class,
\* with the plain text rule last
InlineRules == <<"escape", "inline_html", "autolink", "url", "footnote", "link",
                 "reflink", "nolink", "double_emphasis", "emphasis", "code",
                 "linebreak", "strikethrough", "text">>

\* enable_math adding the rule just before the plain text rule
enable_math_before_text(rules) ==
    SubSeq(rules, 1, Len(rules) - 1) \o <<"math">> \o <<rules[Len(rules)]>>

\* enable_math: self.default_rules.insert(0, 'math')
enable_math(rules) == <<"math">> \o rules

\* the characters the model lexes; of the inherited rules only text matches a
\* text that starts with one of them
LexChars == {"a", "$", "\n"}

\* rules.math, ^\$(.+?)\$ : the length matched at the start of s, 0 for no match.
\* '.' does not match a line break, and +? takes the nearest closing '$'
MathMatch(s) ==
    LET ends == {k \in 3..Len(s) : /\ s[k] = "$"
                                   /\ \A j \in 2..(k - 1) : s[j] # "\n"} IN
    IF s # <<>> /\ s[1] = "$" /\ ends # {}
    THEN CHOOSE k \in ends : \A k2 \in ends : k <= k2
    ELSE 0

\* rules.text, ^[\s\S]+?(?=[\\<!\[_*`~\$]|https?://| {2,}\n|$) : at least one
\* character, up to the nearest position followed by '$' or by the end of s (the
\* pattern's '$' also holds before a line break that ends s)
TextMatch(s) ==
    LET stops == {n \in 1..Len(s) : \/ n = Len(s)
                                    \/ s[n + 1] = "$"
                                    \/ (n = Len(s) - 1 /\ s[n + 1] = "\n")} IN
    IF s = <<>> THEN 0 ELSE CHOOSE n \in stops : \A n2 \in stops : n <= n2

\* pattern.match(text) for the rule named key
Match(key, s) ==
    IF key = "math" THEN MathMatch(s)
    ELSE IF key = "text" THEN TextMatch(s)
    ELSE 0

\* output_math gives renderer.math(m.group(1)), '$%s$'; output_text the text
Rendered(key, s, n) ==
    IF key = "math" THEN <<"$">> \o SubSeq(s, 2, n - 1) \o <<"$">>
    ELSE SubSeq(s, 1, n)

\* text.rstrip('\n')
RECURSIVE rstrip_newlines(_)
rstrip_newlines(s) ==
    IF s # <<>> /\ s[Len(s)] = "\n" THEN rstrip_newlines(SubSeq(s, 1, Len(s) - 1))
    ELSE s

NotLexer == <<codecVars, tableVars, imageVars>>

\* MathInlineLexer.__init__: InlineLexer.__init__, then enable_math
NewLexer ==
    /\ lstate # "scan" /\ lstate # "matched"
    /\ lexers < MaxLexers
    /\ lexers' = lexers + 1
    /\ default_rules' = enable_math(default_rules)
    /\ UNCHANGED <<ltext, tried, lout, lstate, NotLexer>>

\* output(text): the loop starts at the first character
Output(s) ==
    /\ lexers >= 1
    /\ lstate \in {"idle", "done"}
    /\ ltext' = rstrip_newlines(s)
    /\ tried' = <<>>
    /\ lout' = <<>>
    /\ lstate' = "scan"
    /\ UNCHANGED <<default_rules, lexers, NotLexer>>

\* manipulate(): the next rule of the list is tried at the current position
TryRule ==
    /\ lstate = "scan"
    /\ ltext # <<>>
    /\ Len(tried) < Len(default_rules)
    /\ LET key == default_rules[Len(tried) + 1] IN
       /\ tried' = Append(tried, key)
       /\ lstate' = IF Match(key, ltext) > 0 THEN "matched" ELSE "scan"
    /\ UNCHANGED <<default_rules, lexers, ltext, lout, NotLexer>>

\* the rule that matched renders its match, and the loop moves past it
Consume ==
    /\ lstate = "matched"
    /\ LET key == tried[Len(tried)]
           n == Match(key, ltext) IN
       /\ lout' = lout \o Rendered(key, ltext, n)
       /\ ltext' = SubSeq(ltext, n + 1, Len(ltext))
    /\ tried' = <<>>
    /\ lstate' = "scan"
    /\ UNCHANGED <<default_rules, lexers, NotLexer>>

\* no text is left: output() returns
Finish ==
    /\ lstate = "scan"
    /\ ltext = <<>>
    /\ lstate' = "done"
    /\ UNCHANGED <<default_rules, lexers, ltext, tried, lout, NotLexer>>

LexerIdle ==
    /\ default_rules = InlineRules
    /\ lexers = 0
    /\ ltext = <<>>
    /\ tried = <<>>
    /\ lout = <<>>
    /\ lstate = "idle"

-----------------------------------------------------------------------------
(* The image embedding renderer: EmbedImagesRenderer                       *)

None == [none |-> TRUE, v |-> <<>>]
Some(x) == [none |-> FALSE, v |-> x]

Upper == <<"A", "B", "C", "D", "E", "F", "G", "H", "I", "J", "K", "L", "M", "N", "O", "P", "Q", "R", "S", "T", "U", "V", "W", "X", "Y", "Z">>
Lower == <<"a", "b", "c", "d", "e", "f", "g", "h", "i", "j", "k", "l", "m", "n", "o", "p", "q", "r", "s", "t", "u", "v", "w", "x", "y", "z">>

IsLetter(c) == \E i \in 1..26 : Upper[i] = c \/ Lower[i] = c

lower_char(c) == IF \E i \in 1..26 : Upper[i] = c
                 THEN Lower[CHOOSE i \in 1..26 : Upper[i] = c]
                 ELSE c

lower(s) == [i \in 1..Len(s) |-> lower_char(s[i])]

StartsWith(s, p) == Len(s) >= Len(p) /\ SubSeq(s, 1, Len(p)) = p

\* s.rfind(c): the 0-based index of the last c, or -1
rfind(s, c) == IF \E i \in 1..Len(s) : s[i] = c
               THEN (CHOOSE i \in 1..Len(s) : s[i] = c /\ \A j \in (i + 1)..Len(s) : s[j] # c) - 1
               ELSE -1

\* urlparse(src).scheme: the text before the first ':' when it starts with a
\* letter and holds only letters, digits, '+', '-' and '.'; lowercased
Scheme(src) ==
    LET i == find(src, ":") IN
    IF /\ i > 0
       /\ IsLetter(src[1])
       /\ \A k \in 1..i : IsLetter(src[k]) \/ IsDigit(src[k]) \/ src[k] \in {"+", "-", "."}
    THEN lower(SubSeq(src, 1, i))
    ELSE <<>>

\* os.path.splitext(p)[-1]: from the last '.' of the last path component, unless
\* only dots precede it there
splitext_ext(p) ==
    LET sepIndex == rfind(p, "/")
        dotIndex == rfind(p, ".") IN
    IF /\ dotIndex > sepIndex
       /\ \E k \in (sepIndex + 1)..(dotIndex - 1) : p[k + 1] # "."
    THEN Slice(p, dotIndex, Len(p))
    ELSE <<>>

\* EmbedImagesRenderer._mime_types
MimeTypes ==
    [ext \in {<<"g", "i", "f">>, <<"p", "b", "m">>, <<"p", "g", "m">>, <<"p", "p", "m">>, <<"t", "i", "f", "f">>, <<"x", "b", "m">>, <<"j", "p", "g">>,
              <<"j", "p", "e", "g">>, <<"b", "m", "p">>, <<"p", "n", "g">>, <<"s", "v", "g">>} |->
        CASE ext = <<"g", "i", "f">> -> <<"i", "m", "a", "g", "e", "/", "g", "i", "f">>
          [] ext = <<"p", "b", "m">> -> <<"i", "m", "a", "g", "e", "/", "x", "-", "p", "o", "r", "t", "a", "b", "l", "e", "-", "b", "i", "t", "m", "a", "p">>
          [] ext = <<"p", "g", "m">> -> <<"i", "m", "a", "g", "e", "/", "x", "-", "p", "o", "r", "t", "a", "b", "l", "e", "-", "g", "r", "a", "y", "m", "a", "p">>
          [] ext = <<"p", "p", "m">> -> <<"i", "m", "a", "g", "e", "/", "x", "-", "p", "o", "r", "t", "a", "b", "l", "e", "-", "p", "i", "x", "m", "a", "p">>
          [] ext = <<"t", "i", "f", "f">> -> <<"i", "m", "a", "g", "e", "/", "t", "i", "f", "f">>
          [] ext = <<"x", "b", "m">> -> <<"i", "m", "a", "g", "e", "/", "x", "-", "x", "b", "i", "t", "m", "a", "p">>
          [] ext = <<"j", "p", "g">> -> <<"i", "m", "a", "g", "e", "/", "j", "p", "e", "g">>
          [] ext = <<"j", "p", "e", "g">> -> <<"i", "m", "a", "g", "e", "/", "j", "p", "e", "g">>
          [] ext = <<"b", "m", "p">> -> <<"i", "m", "a", "g", "e", "/", "x", "-", "m", "s", "-", "b", "m", "p">>
          [] ext = <<"p", "n", "g">> -> <<"i", "m", "a", "g", "e", "/", "p", "n", "g">>
          [] ext = <<"s", "v", "g">> -> <<"i", "m", "a", "g", "e", "/", "s", "v", "g", "+", "x", "m", "l">>]

\* _mime_type keeping the extension's dot
mime_type_with_dot(fname) ==
    LET img_ext == splitext_ext(fname) IN
    IF img_ext \in DOMAIN MimeTypes THEN Some(MimeTypes[img_ext]) ELSE None

\* _mime_type with a default for an extension the table lacks
mime_type_default(fname) ==
    LET img_ext == Slice(splitext_ext(fname), 1, Len(splitext_ext(fname))) IN
    IF img_ext \in DOMAIN MimeTypes THEN Some(MimeTypes[img_ext])
    ELSE Some(<<"a", "p", "p", "l", "i", "c", "a", "t", "i", "o", "n", "/", "o", "c", "t", "e", "t", "-", "s", "t", "r", "e", "a", "m">>)

\* _mime_type(fname): the table's entry for the extension without its dot, or None
mime_type(fname) ==
    LET img_ext == Slice(splitext_ext(fname), 1, Len(splitext_ext(fname))) IN
    IF img_ext \in DOMAIN MimeTypes THEN Some(MimeTypes[img_ext]) ELSE None

\* the base64 alphabet
B64Chars == Upper \o Lower \o Digit \o <<"+", "/">>

\* base64.b64encode(content).decode('utf-8')
RECURSIVE b64encode(_)
b64encode(b) ==
    IF b = <<>> THEN <<>>
    ELSE IF Len(b) = 1
    THEN <<B64Chars[(b[1] \div 4) + 1], B64Chars[((b[1] % 4) * 16) + 1], "=", "=">>
    ELSE IF Len(b) = 2
    THEN <<B64Chars[(b[1] \div 4) + 1],
           B64Chars[((b[1] % 4) * 16 + (b[2] \div 16)) + 1],
           B64Chars[((b[2] % 16) * 4) + 1], "=">>
    ELSE <<B64Chars[(b[1] \div 4) + 1],
           B64Chars[((b[1] % 4) * 16 + (b[2] \div 16)) + 1],
           B64Chars[((b[2] % 16) * 4 + (b[3] \div 64)) + 1],
           B64Chars[(b[3] % 64) + 1]>>
         \o b64encode(SubSeq(b, 4, Len(b)))

\* mistune.escape(text, quote): '&', '<', '>' and, with quote, the two quotes
\* become entities (the texts of the model hold no '&' that starts an entity)
RECURSIVE escape(_, _)
escape(s, quote) ==
    IF s = <<>> THEN <<>>
    ELSE (CASE s[1] = "&" -> <<"&", "a", "m", "p", ";">>
            [] s[1] = "<" -> <<"&", "l", "t", ";">>
            [] s[1] = ">" -> <<"&", "g", "t", ";">>
            [] s[1] = "\"" /\ quote -> <<"&", "q", "u", "o", "t", ";">>
            [] s[1] = "'" /\ quote -> <<"&", "#", "3", "9", ";">>
            [] OTHER -> <<s[1]>>)
         \o escape(Tail(s), quote)

\* the characters re.sub(r'[^A-Za-z0-9\/:]+', '', url) keeps
RECURSIVE KeepUrlChars(_)
KeepUrlChars(s) ==
    IF s = <<>> THEN <<>>
    ELSE (IF IsLetter(s[1]) \/ IsDigit(s[1]) \/ s[1] \in {"/", ":"} THEN <<s[1]>> ELSE <<>>)
         \o KeepUrlChars(Tail(s))

\* mistune.escape_link(url): '' for a javascript: or vbscript: URL, else the URL
\* escaped with its quotes
escape_link(url) ==
    IF \E scheme \in {<<"j", "a", "v", "a", "s", "c", "r", "i", "p", "t", ":">>, <<"v", "b", "s", "c", "r", "i", "p", "t", ":">>} :
           StartsWith(KeepUrlChars(lower(url)), scheme)
    THEN <<>>
    ELSE escape(url, TRUE)

\* the root directory the renderer was constructed with
RootPath == <<"l", "a", "b">>

\* os.path.join(root_path, src)
path_join(root, src) == IF StartsWith(src, <<"/">>) THEN src ELSE root \o <<"/">> \o src

\* the files under the root: their bytes and, for an SVG image, whether cairosvg
\* can render it and the pixel size of its rendering at scale 2.5
Files ==
    [p \in {<<"l", "a", "b", "/", "i", "m", "g", ".", "p", "n", "g">>, <<"l", "a", "b", "/", "d", ".", "1", "/", "p", ".", "j", "p", "g">>, <<"l", "a", "b", "/", "f", "i", "g", ".", "s", "v", "g">>, <<"l", "a", "b", "/", "b", "a", "d", ".", "s", "v", "g">>,
            <<"l", "a", "b", "/", "i", "m", "g", ".", "x", "y", "z">>} |->
        CASE p = <<"l", "a", "b", "/", "i", "m", "g", ".", "p", "n", "g">> -> [bytes |-> <<137, 80, 78, 71>>, svgok |-> FALSE, px |-> <<0, 0>>]
          [] p = <<"l", "a", "b", "/", "d", ".", "1", "/", "p", ".", "j", "p", "g">> -> [bytes |-> <<255, 216, 255>>, svgok |-> FALSE, px |-> <<0, 0>>]
          [] p = <<"l", "a", "b", "/", "f", "i", "g", ".", "s", "v", "g">> -> [bytes |-> <<60, 115, 118, 103, 62>>, svgok |-> TRUE, px |-> <<250, 125>>]
          [] p = <<"l", "a", "b", "/", "b", "a", "d", ".", "s", "v", "g">> -> [bytes |-> <<60, 115>>, svgok |-> FALSE, px |-> <<0, 0>>]
          [] p = <<"l", "a", "b", "/", "i", "m", "g", ".", "x", "y", "z">> -> [bytes |-> <<1>>, svgok |-> FALSE, px |-> <<0, 0>>]]

\* the PNG cairosvg.svg2png writes for a file: a signature and the pixel size
svg2png(f) == <<137, 80, 78, 71, f.px[1], f.px[2]>>

\* int(n / 2.5)
DisplaySize(n) == (n * 2) \div 5

\* the result of _to_data_src: the exception raised if any, the three values
\* returned, and the handles and buffers it opened and did not close
DataSrc(exc, data_src, width, height, unclosed) ==
    [exc |-> exc, data_src |-> data_src, width |-> width, height |-> height,
     unclosed |-> unclosed]

DataUri(mimetype, content) == <<"d", "a", "t", "a", ":">> \o mimetype \o <<";", "b", "a", "s", "e", "6", "4", ",">> \o b64encode(content)

\* _to_data_src(src).  The raw read is inside "with open(...)", which closes the
\* file; the BytesIO buffer and the PIL image of the SVG branch are never closed
to_data_src(src, conv) ==
    IF Scheme(src) # <<>> THEN DataSrc("none", None, None, None, {})
    ELSE LET filepath == path_join(RootPath, src) IN
         IF filepath \notin DOMAIN Files THEN DataSrc("OSError", None, None, None, {})
         ELSE LET mimetype == mime_type(src) IN
              IF mimetype.none THEN DataSrc("ValueError", None, None, None, {})
              ELSE IF conv /\ mimetype.v = <<"i", "m", "a", "g", "e", "/", "s", "v", "g", "+", "x", "m", "l">>
              THEN IF ~Files[filepath].svgok
                   THEN DataSrc("ParseError", None, None, None, {"out"})
                   ELSE DataSrc("none",
                                Some(DataUri(<<"i", "m", "a", "g", "e", "/", "p", "n", "g">>, svg2png(Files[filepath]))),
                                Some(DisplaySize(Files[filepath].px[1])),
                                Some(DisplaySize(Files[filepath].px[2])),
                                {"out", "im"})
              ELSE DataSrc("none", Some(DataUri(mimetype.v, Files[filepath].bytes)),
                           None, None, {})

\* MdRenderer.link(link, title, text, image)
link(l, title, t, image) ==
    (IF image THEN <<"!">> ELSE <<>>) \o <<"[">> \o t \o <<"]", "(">> \o l \o <<")">>
    \o (IF ~title.none /\ title.v # <<>> THEN <<"\"">> \o title.v \o <<"\"">> ELSE <<>>)

\* MdRenderer.image(src, title, text): it calls link and returns nothing
md_image(src, title, t) == None

\* _html_image(src, title, text, width, height)
html_image(src, title, t, width, height) ==
    <<"<", "i", "m", "g", " ", "s", "r", "c", "=", "\"">> \o escape_link(src) \o <<"\"">>
    \o (IF t # <<>> THEN <<" ", "a", "l", "t", "=", "\"">> \o t \o <<"\"">> ELSE <<>>)
    \o (IF ~width.none THEN <<" ", "w", "i", "d", "t", "h", "=", "\"">> \o str(width.v) \o <<"\"">> ELSE <<>>)
    \o (IF ~height.none THEN <<" ", "h", "e", "i", "g", "h", "t", "=", "\"">> \o str(height.v) \o <<"\"">> ELSE <<>>)
    \o (IF ~title.none /\ title.v # <<>> THEN <<" ", "t", "i", "t", "l", "e", "=", "\"">> \o escape(title.v, FALSE) \o <<"\"">> ELSE <<>>)
    \o <<" ", "/", ">">>

\* the body of _proc_html's loop for one img element, with "or" for "and"
proc_img_or(img, d) ==
    LET sized == IF img.width.none \/ img.height.none
                 THEN [img EXCEPT
                          !.width = IF ~d.width.none THEN Some(str(d.width.v)) ELSE @,
                          !.height = IF ~d.height.none THEN Some(str(d.height.v)) ELSE @]
                 ELSE img IN
    IF ~d.data_src.none /\ d.data_src.v # <<>>
    THEN [sized EXCEPT !.src = d.data_src]
    ELSE sized

\* the body of _proc_html's loop for one img element, d being what _to_data_src
\* returned for its src
proc_img(img, d) ==
    LET sized == IF img.width.none /\ img.height.none
                 THEN [img EXCEPT
                          !.width = IF ~d.width.none THEN Some(str(d.width.v)) ELSE @,
                          !.height = IF ~d.height.none THEN Some(str(d.height.v)) ELSE @]
                 ELSE img IN
    IF ~d.data_src.none /\ d.data_src.v # <<>>
    THEN [sized EXCEPT !.src = d.data_src]
    ELSE sized

\* _proc_html(html), the fragment being the img elements lxml finds in it, in
\* document order; acc is [exc, imgs, unclosed]
RECURSIVE proc_html(_, _, _)
proc_html(imgs, conv, acc) ==
    IF imgs = <<>> \/ acc.exc # "none" THEN acc
    ELSE LET d == to_data_src(Head(imgs).src.v, conv) IN
         IF d.exc # "none"
         THEN [acc EXCEPT !.exc = d.exc, !.unclosed = acc.unclosed \cup d.unclosed]
         ELSE proc_html(Tail(imgs), conv,
                  [acc EXCEPT !.imgs = Append(acc.imgs, proc_img(Head(imgs), d)),
                              !.unclosed = acc.unclosed \cup d.unclosed])

\* the image references of the model: a remote one, local files of known and of
\* unknown type, and files that do not exist
ImageSrcs == {<<"h", "t", "t", "p", ":", "/", "/", "e", ".", "c", "o", "/", "x", ".", "p", "n", "g">>, <<"i", "m", "g", ".", "p", "n", "g">>, <<"d", ".", "1", "/", "p", ".", "j", "p", "g">>, <<"f", "i", "g", ".", "s", "v", "g">>,
              <<"b", "a", "d", ".", "s", "v", "g">>, <<"i", "m", "g", ".", "x", "y", "z">>, <<"g", "o", "n", "e", ".", "x", "y", "z">>, <<"g", "o", "n", "e", ".", "p", "n", "g">>}

Titles == {None, Some(<<"T">>)}

AltTexts == {<<>>, <<"a", "l", "t">>}

\* the img elements of a raw HTML fragment
HtmlSrcs == {<<"h", "t", "t", "p", ":", "/", "/", "e", ".", "c", "o", "/", "x", ".", "p", "n", "g">>, <<"i", "m", "g", ".", "p", "n", "g">>, <<"f", "i", "g", ".", "s", "v", "g">>, <<"g", "o", "n", "e", ".", "p", "n", "g">>}

ImgElements == [src : {Some(s) : s \in HtmlSrcs},
                width : {None, Some(<<"1", "0">>)},
                height : {None, Some(<<"2", "0">>)}]

ImageCalls == [op : {"image"}, src : ImageSrcs, title : Titles, text : AltTexts,
               imgs : {<<>>}]

HtmlCalls == [op : {"inline_html", "block_html"}, src : {<<>>}, title : {None},
              text : {<<>>}, imgs : UNION {[1..n -> ImgElements] : n \in 0..MaxImgs}]

\* a render call's outcome: the exception raised ("pending" before the call),
\* the text returned (image) and the fragment returned (inline_html, block_html)
Outcome(exc, ret, imgs) == [exc |-> exc, ret |-> ret, imgs |-> imgs]

NotImage == <<codecVars, tableVars, lexerVars>>

\* what is still open after a call: everything not closed when the call raised
\* (the traceback keeps the frame), and after a return whatever the interpreter
\* has not yet collected
StillOpen(exc, unclosed) == IF exc # "none" THEN {unclosed} ELSE {unclosed, {}}

\* EmbedImagesRenderer.image(src, title, text)
Image ==
    /\ icall.op = "image"
    /\ ires.exc = "pending"
    /\ LET d == to_data_src(icall.src, convert_svgs) IN
       /\ ires' = IF d.exc # "none" THEN Outcome(d.exc, None, <<>>)
                  ELSE IF d.data_src.none
                  THEN Outcome("none", md_image(icall.src, icall.title, icall.text), <<>>)
                  ELSE Outcome("none",
                               Some(html_image(d.data_src.v, icall.title, icall.text,
                                               d.width, d.height)), <<>>)
       /\ handles' \in StillOpen(d.exc, d.unclosed)
    /\ UNCHANGED <<convert_svgs, icall, NotImage>>

\* what inline_html and block_html do: _proc_html, then the inherited renderer,
\* which returns the fragment as it is
HtmlCall ==
    LET p == proc_html(icall.imgs, convert_svgs,
                       [exc |-> "none", imgs |-> <<>>, unclosed |-> {}]) IN
    /\ ires' = IF p.exc # "none" THEN Outcome(p.exc, None, <<>>)
               ELSE Outcome("none", None, p.imgs)
    /\ handles' \in StillOpen(p.exc, p.unclosed)
    /\ UNCHANGED <<convert_svgs, icall, NotImage>>

\* EmbedImagesRenderer.inline_html(html)
InlineHtml ==
    /\ icall.op = "inline_html"
    /\ ires.exc = "pending"
    /\ HtmlCall

\* EmbedImagesRenderer.block_html(html)
BlockHtml ==
    /\ icall.op = "block_html"
    /\ ires.exc = "pending"
    /\ HtmlCall

NoCall == [op |-> "none", src |-> <<>>, title |-> None, text |-> <<>>, imgs |-> <<>>]

ImageIdle ==
    /\ convert_svgs = TRUE
    /\ icall = NoCall
    /\ ires = Outcome("pending", None, <<>>)
    /\ handles = {}

-----------------------------------------------------------------------------
(* Specifications                                                          *)

\* the codec: callbacks encode chunks into a buffer, list() decodes it
InitCodec == CodecIdle /\ TableIdle /\ LexerIdle /\ ImageIdle

NextCodec ==
    \/ \E tag \in Tags, payload \in Payloads : Emit(tag, payload)
    \/ Wrap
    \/ \E o \in BOOLEAN : ListCall(o)
    \/ ListStep
    \/ ListReturn

SpecCodec == InitCodec /\ [][NextCodec]_vars

\* the decoder alone: list() on an arbitrary buffer
DecodeChars == {"l", "2", ":", "a"}

InitDecode ==
    /\ text \in StringsUpTo(DecodeChars, MaxText)
    /\ ordered \in BOOLEAN
    /\ phase = "decode"
    /\ chunks = <<>>
    /\ wire = text
    /\ wrapped = FALSE
    /\ emitted = 0
    /\ blocks = <<>>
    /\ r = <<>>
    /\ err = "none"
    /\ TableIdle /\ LexerIdle /\ ImageIdle

NextDecode ==
    \/ ListStep
    \/ ListReturn

SpecDecode == InitDecode /\ [][NextDecode]_vars

\* the table renderer: a table is handed over and rendered
InitTable ==
    /\ tcall \in TableInputs
    /\ tres = TableRaised("pending")
    /\ CodecIdle /\ LexerIdle /\ ImageIdle

NextTable == RenderTable

SpecTable == InitTable /\ [][NextTable]_vars

\* the inline lexer: lexers are constructed, and output() lexes a text
InitLexer == CodecIdle /\ TableIdle /\ LexerIdle /\ ImageIdle

NextLexer ==
    \/ NewLexer
    \/ \E s \in StringsUpTo(LexChars, MaxInput) : Output(s)
    \/ TryRule
    \/ Consume
    \/ Finish

SpecLexer == InitLexer /\ [][NextLexer]_vars

\* the image embedding renderer: constructed with or without SVG conversion, it
\* is given one render call
InitImage ==
    /\ convert_svgs \in BOOLEAN
    /\ icall \in ImageCalls \cup HtmlCalls
    /\ ires = Outcome("pending", None, <<>>)
    /\ handles = {}
    /\ CodecIdle /\ TableIdle /\ LexerIdle

NextImage ==
    \/ Image
    \/ InlineHtml
    \/ BlockHtml

SpecImage == InitImage /\ [][NextImage]_vars

-----------------------------------------------------------------------------
(* Properties                                                              *)

RECURSIVE EncodeAll(_)
EncodeAll(cs) == IF cs = <<>> THEN <<>>
                 ELSE chunk(Head(cs)[1], Head(cs)[2]) \o EncodeAll(Tail(cs))

\* C1: codec round trip.  While list() decodes a buffer that is the concatenation
\* of the encodings of a sequence of chunks, the blocks get_block has returned are
\* the first chunks of that sequence, tag and payload, in order; what is left to
\* decode is the encoding of the rest; no call raises; and when nothing is left
\* the blocks are exactly the chunks
C1_RoundTrip ==
    /\ phase # "raised"
    /\ phase \in {"decode", "done"} =>
        /\ err = "none"
        /\ Len(blocks) <= Len(chunks)
        /\ \A i \in 1..Len(blocks) : blocks[i] = chunks[i]
        /\ text = EncodeAll(SubSeq(chunks, Len(blocks) + 1, Len(chunks)))
        /\ (text = <<>> => blocks = chunks)

\* C1, its case: a buffer of two chunks, one of them a row whose payload is
\* longer than nine characters and holds digits and ':', was decoded to the end
C1_Witness ==
    /\ phase = "done"
    /\ Len(chunks) = 2
    /\ blocks = chunks
    /\ text = <<>>
    /\ \E i \in 1..2 : /\ Len(chunks[i][2]) >= 10
                       /\ \E k \in 1..Len(chunks[i][2]) : chunks[i][2][k] = ":"
                       /\ \E k \in 1..Len(chunks[i][2]) : IsDigit(chunks[i][2][k])

\* the next chunk of s is malformed: s has no ':', or the length it declares is
\* more than the characters that follow the ':'
Malformed(s) ==
    /\ s # <<>>
    /\ \/ find(s, ":") = -1
       \/ /\ find(s, ":") > 0
          /\ int(Slice(s, 1, find(s, ":"))).ok
          /\ int(Slice(s, 1, find(s, ":"))).val > Len(s) - (find(s, ":") + 1)

\* C5: decode error on malformed input.  list() given a buffer whose first chunk
\* is malformed yields no block from it and does not return: the call raises
C5_DecodeError ==
    Malformed(wire) => /\ blocks = <<>>
                       /\ phase # "done"
                       /\ (text # wire => phase = "raised")

\* the lines of r, each without its line break
RECURSIVE SplitLines(_)
SplitLines(s) ==
    IF s = <<>> THEN <<>>
    ELSE LET n == find(s, "\n") IN
         IF n = -1 THEN <<s>>
         ELSE <<Slice(s, 0, n)>> \o SplitLines(Slice(s, n + 1, Len(s)))

\* the cells of a line: what ' | ' separates
RECURSIVE SplitCells(_)
SplitCells(s) ==
    LET bars == {k \in 1..(Len(s) - 2) : SubSeq(s, k, k + 2) = <<" ", "|", " ">>} IN
    IF bars = {} THEN <<s>>
    ELSE LET k == CHOOSE b \in bars : \A b2 \in bars : b <= b2 IN
         <<SubSeq(s, 1, k - 1)>> \o SplitCells(SubSeq(s, k + 3, Len(s)))

\* the rows of the table handed over, the header's first
InRows == <<tcall.header>> \o tcall.body

\* the separator row of the rendered table, as cells
SepCells == SplitCells(SplitLines(tres.r)[tres.nh + 1])

\* the rendered rows without the separator row, as cells, in the order of InRows
OutRows ==
    LET lines == SplitLines(tres.r) IN
    [k \in 1..Len(InRows) |->
        SplitCells(lines[IF k <= tres.nh THEN k ELSE k + 1])]

\* the width of column i: the longest text of a cell of the column
ColWidth(i) ==
    LET lens == {Len(InRows[k][i]) : k \in {k \in 1..Len(InRows) : Len(InRows[k]) >= i}} IN
    CHOOSE w \in lens : \A w2 \in lens : w >= w2

\* the alignment a separator cell shows
CellMarker(c) ==
    IF Len(c) >= 2 /\ c[1] = ":" /\ c[Len(c)] = ":" THEN "c"
    ELSE IF c # <<>> /\ c[1] = ":" THEN "l"
    ELSE IF c # <<>> /\ c[Len(c)] = ":" THEN "r"
    ELSE ""

\* the first align flag that is not None among the cells of column i, rows taken
\* top to bottom: its first letter, "" when there is none.  The cell of column i
\* was given the flag align = tcall.aligns[i] in every row
FirstAlign(i) ==
    LET rows == {k \in 1..Len(InRows) : Len(InRows[k]) >= i /\ tcall.aligns[i] # <<"N", "o", "n", "e">>} IN
    IF rows = {} THEN "" ELSE tcall.aligns[i][1]

\* C6: table column alignment.  The alignment the separator row shows for column
\* i is the first align flag that is not None among the cells of column i
C6_ColumnAlignment ==
    tres.exc = "none" =>
        /\ Len(SepCells) = Len(tcall.aligns)
        /\ \A i \in 1..Len(SepCells) : CellMarker(SepCells[i]) = FirstAlign(i)

\* a run of n '-'
Dashes(n) == [k \in 1..n |-> "-"]

\* the separator cell of n characters for alignment letter a
FilledSep(a, n) ==
    IF a = "c" THEN <<":">> \o Dashes(n - 2) \o <<":">>
    ELSE IF a = "l" THEN <<":">> \o Dashes(n - 1)
    ELSE IF a = "r" THEN Dashes(n - 1) \o <<":">>
    ELSE Dashes(n)

\* the fewest characters a separator cell has: its marker and one '-'
MinSep(a) == IF a = "c" THEN 3 ELSE IF a \in {"l", "r"} THEN 2 ELSE 1

\* every header and body cell is its text, line breaks as spaces, padded with
\* spaces to its column's width
CellsPadded ==
    \A k \in 1..Len(InRows) :
        /\ Len(OutRows[k]) = Len(InRows[k])
        /\ \A i \in 1..Len(InRows[k]) :
               /\ Len(OutRows[k][i]) = ColWidth(i)
               /\ SubSeq(OutRows[k][i], 1, Len(InRows[k][i])) = flatten(InRows[k][i])
               /\ \A j \in (Len(InRows[k][i]) + 1)..ColWidth(i) : OutRows[k][i][j] = " "

\* C7 as stated: table separator width.  The separator cell of every column is
\* the marker of the column's alignment filled with '-' to exactly the column's
\* width, the width every header and body cell of the column is padded to
C7_SeparatorWidth ==
    tres.exc = "none" =>
        /\ Len(SepCells) = tres.colscount
        /\ CellsPadded
        /\ \A i \in 1..Len(SepCells) :
               SepCells[i] = FilledSep(tres.align[i], ColWidth(i))

\* C7 as amended: the separator cell of column i is the marker of the alignment
\* table() holds for the column, filled with '-' to the column's width, but to no
\* fewer characters than the marker and one '-' take (3 centered, 2 left or
\* right, 1 default); every header and body cell is padded to the column's width
C7_SeparatorMinWidth ==
    tres.exc = "none" =>
        /\ Len(SepCells) = tres.colscount
        /\ tres.colscount = Len(tcall.header)
        /\ CellsPadded
        /\ \A i \in 1..Len(SepCells) :
               /\ tres.colmax[i] = ColWidth(i)
               /\ SepCells[i] = FilledSep(tres.align[i],
                                          Max(ColWidth(i), MinSep(tres.align[i])))

\* C7, its case: a table of two columns was rendered, the first one character
\* wide with a separator cell of two, the second four wide with one of four
C7_Witness ==
    /\ tres.exc = "none"
    /\ tres.colscount = 2
    /\ tcall.body # <<>>
    /\ ColWidth(1) = 1 /\ SepCells[1] = <<":", "-">>
    /\ ColWidth(2) = 4 /\ SepCells[2] = <<":", "-", "-", "-">>

\* the inline rules other than math and the plain text rule
OtherRules == {InlineRules[k] : k \in 1..Len(InlineRules)} \ {"text"}

\* C9 as stated: inline math precedence.  At every position the math rule is
\* tried only after every other rule but text was tried there, and the rule
\* tried after it is the text rule
C9_MathTriedLast ==
    \A i \in 1..Len(tried) :
        tried[i] = "math" =>
            /\ \A rule \in OtherRules : \E j \in 1..(i - 1) : tried[j] = rule
            /\ (i < Len(tried) => tried[i + 1] = "text")

\* C9 as amended: at every position the math rule is the first rule tried: every
\* other rule, the text rule too, is tried there only after it
C9_MathTriedFirst ==
    /\ lexers >= 1 => default_rules[1] = "math"
    /\ \A i \in 1..Len(tried) :
           tried[i] # "math" =>
               /\ tried[1] = "math"
               /\ \A j \in (i + 1)..Len(tried) : tried[j] # "math"

\* C9, its case: at a position that starts with '$' the math rule was tried
\* first and did not match, every other rule was tried after it, and the text
\* rule matched
C9_Witness ==
    /\ lstate = "matched"
    /\ ltext[1] = "$"
    /\ tried[1] = "math"
    /\ tried[Len(tried)] = "text"
    /\ \A rule \in OtherRules : \E j \in 2..Len(tried) : tried[j] = rule

\* an image call has returned or raised
ImageCalled == icall.op = "image" /\ ires.exc # "pending"

\* C2: remote image untouched.  For a src with a URL scheme, image returns the
\* default renderer's text for the reference, ![text](src) and the title
C2_RemoteUntouched ==
    (ImageCalled /\ Scheme(icall.src) # <<>>) =>
        ires = Outcome("none",
                       Some(link(icall.src, icall.title, icall.text, TRUE)), <<>>)

\* the base64 encodings of the files' bytes, from a reference encoder
KnownB64 ==
    [p \in DOMAIN Files |->
        CASE p = <<"l", "a", "b", "/", "i", "m", "g", ".", "p", "n", "g">> -> <<"i", "V", "B", "O", "R", "w", "=", "=">>
          [] p = <<"l", "a", "b", "/", "d", ".", "1", "/", "p", ".", "j", "p", "g">> -> <<"/", "9", "j", "/">>
          [] p = <<"l", "a", "b", "/", "f", "i", "g", ".", "s", "v", "g">> -> <<"P", "H", "N", "2", "Z", "z", "4", "=">>
          [] p = <<"l", "a", "b", "/", "b", "a", "d", ".", "s", "v", "g">> -> <<"P", "H", "M", "=">>
          [] p = <<"l", "a", "b", "/", "i", "m", "g", ".", "x", "y", "z">> -> <<"A", "Q", "=", "=">>]

\* the extension of a file name of the model: what follows its one '.' that is
\* not in a directory name
ExtOf(src) == Slice(src, rfind(src, "."), Len(src))

\* the src of the call is local, its file exists, and its extension is in the
\* table
LocalKnown ==
    /\ Scheme(icall.src) = <<>>
    /\ path_join(RootPath, icall.src) \in DOMAIN Files
    /\ Tail(ExtOf(icall.src)) \in DOMAIN MimeTypes

\* C3: local image embedding.  For a local src whose file exists and whose
\* extension is in the table, and that is not an SVG being rasterized, image
\* returns an img tag whose src is data:<mimetype>;base64,<enc>, mimetype the
\* table's entry and enc the base64 of the file's bytes, with alt and title when
\* given and with no width and no height
C3_LocalEmbedded ==
    (/\ ImageCalled
     /\ LocalKnown
     /\ ~(convert_svgs /\ Tail(ExtOf(icall.src)) = <<"s", "v", "g">>)) =>
        ires = Outcome("none",
                   Some(<<"<", "i", "m", "g", " ", "s", "r", "c", "=", "\"", "d", "a", "t", "a", ":">>
                        \o MimeTypes[Tail(ExtOf(icall.src))]
                        \o <<";", "b", "a", "s", "e", "6", "4", ",">>
                        \o KnownB64[path_join(RootPath, icall.src)]
                        \o <<"\"">>
                        \o (IF icall.text # <<>> THEN <<" ", "a", "l", "t", "=", "\"">> \o icall.text \o <<"\"">> ELSE <<>>)
                        \o (IF ~icall.title.none THEN <<" ", "t", "i", "t", "l", "e", "=", "\"">> \o icall.title.v \o <<"\"">> ELSE <<>>)
                        \o <<" ", "/", ">">>),
                   <<>>)

\* C3, its case: image was called for img.png and returned its bytes embedded
C3_Witness ==
    /\ ImageCalled
    /\ icall.src = <<"i", "m", "g", ".", "p", "n", "g">>
    /\ icall.title.none
    /\ ires.exc = "none"
    /\ ires.ret = Some(<<"<", "i", "m", "g", " ", "s", "r", "c", "=", "\"", "d", "a", "t", "a", ":", "i", "m", "a", "g", "e", "/", "p", "n", "g", ";", "b", "a", "s", "e", "6", "4", ",", "i", "V", "B", "O", "R", "w", "=", "=", "\"", " ", "a", "l", "t", "=", "\"", "a", "l", "t", "\"", " ", "/", ">">>)

\* C4 as stated: unknown extension failure.  For a local src whose extension is
\* not in the table, image raises the unknown-mimetype error and returns nothing
C4_UnknownExtension ==
    (/\ ImageCalled
     /\ Scheme(icall.src) = <<>>
     /\ Tail(ExtOf(icall.src)) \notin DOMAIN MimeTypes) =>
        ires = Outcome("ValueError", None, <<>>)

\* C4 as amended: for a local src whose file exists and whose extension is not
\* in the table, image raises the unknown-mimetype error and returns nothing;
\* when the file does not exist it raises the not-found error instead
C4_UnknownExtensionOfFile ==
    (/\ ImageCalled
     /\ Scheme(icall.src) = <<>>
     /\ Tail(ExtOf(icall.src)) \notin DOMAIN MimeTypes) =>
        IF path_join(RootPath, icall.src) \in DOMAIN Files
        THEN ires = Outcome("ValueError", None, <<>>)
        ELSE ires = Outcome("OSError", None, <<>>)

\* C4, its case: image was called for the existing file img.xyz and raised
C4_Witness ==
    /\ ImageCalled
    /\ icall.src = <<"i", "m", "g", ".", "x", "y", "z">>
    /\ ires.exc = "ValueError"
    /\ ires.ret = None

\* the display size of the model's SVG files at scale 2.5, from their pixel size
KnownSize == [p \in {<<"f", "i", "g", ".", "s", "v", "g">>} |-> <<<<"1", "0", "0">>, <<"5", "0">>>>]

\* C8: raw-HTML image rewrite.  When inline_html or block_html returns, every
\* img element is there, in order, and (1) its src is a data URI where it was
\* local and is unchanged where it was remote; (2) where it had neither width
\* nor height, both are the computed display size if there is one and stay
\* absent if not; (3) where it had a width or a height, both are as they were
C8_HtmlRewrite ==
    (icall.op \in {"inline_html", "block_html"} /\ ires.exc = "none") =>
        /\ Len(ires.imgs) = Len(icall.imgs)
        /\ \A i \in 1..Len(icall.imgs) :
            LET was == icall.imgs[i]
                now == ires.imgs[i]
                sized == convert_svgs /\ was.src.v \in DOMAIN KnownSize IN
            /\ IF Scheme(was.src.v) # <<>>
               THEN now.src = was.src
               ELSE /\ StartsWith(now.src.v, <<"d", "a", "t", "a", ":">>)
                    /\ now.src = to_data_src(was.src.v, convert_svgs).data_src
            /\ IF was.width.none /\ was.height.none
               THEN IF sized
                    THEN /\ now.width = Some(KnownSize[was.src.v][1])
                         /\ now.height = Some(KnownSize[was.src.v][2])
                    ELSE now.width.none /\ now.height.none
               ELSE now.width = was.width /\ now.height = was.height

\* C8, its case: a fragment of two img elements was rewritten, a rasterized SVG
\* without a size, which got one, and a remote one with a width, left as it was
C8_Witness ==
    /\ icall.op = "block_html"
    /\ ires.exc = "none"
    /\ Len(icall.imgs) = 2
    /\ icall.imgs[1] = [src |-> Some(<<"f", "i", "g", ".", "s", "v", "g">>), width |-> None, height |-> None]
    /\ ires.imgs[1].width = Some(<<"1", "0", "0">>)
    /\ ires.imgs[1].height = Some(<<"5", "0">>)
    /\ ires.imgs[1].src = Some(<<"d", "a", "t", "a", ":", "i", "m", "a", "g", "e", "/", "p", "n", "g", ";", "b", "a", "s", "e", "6", "4", ",", "i", "V", "B", "O", "R", "/", "p", "9">>)
    /\ icall.imgs[2] = [src |-> Some(<<"h", "t", "t", "p", ":", "/", "/", "e", ".", "c", "o", "/", "x", ".", "p", "n", "g">>), width |-> Some(<<"1", "0">>), height |-> None]
    /\ ires.imgs[2] = icall.imgs[2]

\* C10: scoped resource release.  When a render call has returned or raised,
\* every file handle and buffer _to_data_src opened for it is closed
C10_HandlesClosed ==
    ires.exc # "pending" => handles = {}
=============================================================================
